---- MODULE Spec2Model ----
(***************************************************************************)
(* The `sum` command of the MessageFetcher cog (src/src/cogs/summary.py): *)
(* argument parsing, channel-history fetch, transcript formatting, prompt *)
(* building, the LLM call and the replies, as a state machine over one    *)
(* text channel and the invocations dispatched on it.                     *)
(*                                                                         *)
(* A Python str is a sequence of one-character strings, so that split,    *)
(* int, startswith, join and format are computed character by character.  *)
(* The fixed Chinese literals of the source are atomic elements written   *)
(* in ASCII (the module's character set); no operation looks inside them. *)
(* An optional value (None or x) is <<>> or <<x>>.                        *)
(***************************************************************************)
EXTENDS Integers, Sequences, FiniteSets, TLC

VARIABLES
    history,              \* the channel's messages, oldest first (owned by the platform)
    pc,                   \* per invocation: where the coroutine of sum is suspended
    ctx,                  \* per invocation: the command context (prompt, mentions, author)
    history_count,        \* per invocation: local of sum
    target_user,          \* per invocation: local of sum (<<>> is None)
    unawaited,            \* per invocation: coroutines created and never awaited
    iterator,             \* per invocation: the channel.history(...) async iterator
    messages,             \* per invocation: local of _fetch_messages, then of sum
    chat_history_string,  \* per invocation: local of sum
    attachments,          \* per invocation: local of sum
    final_prompt,         \* per invocation: local of sum
    llm_requests,         \* per invocation: the calls made on the LLM client
    response,             \* per invocation: local of _call_llm (<<>> until the client answers)
    summary,              \* per invocation: local of sum
    error,                \* per invocation: the exception bound to e in the handler
    sent,                 \* per invocation: the texts ctx.send delivered, in order
    stages                \* per invocation: the stages of sum begun so far, in order

vars == <<history, pc, ctx, history_count, target_user, unawaited, iterator, messages,
          chat_history_string, attachments, final_prompt, llm_requests, response,
          summary, error, sent, stages>>

-----------------------------------------------------------------------------
(* Bounds of the model *)

\* messages in the channel before the invocations of the handler specification
MaxChannel == 2
\* messages in the channel of the fetch specification
MaxHistory == 3
\* the largest count written in an argument string (the smallest is -1)
MaxCount == 3
\* tokens of an argument string in the parser specification
MaxTokens == 2
\* messages handed to the formatter in the formatter specification
MaxMessages == 2

Invocations == {"inv1", "inv2"}

-----------------------------------------------------------------------------
(* Python primitives *)

Digits == {"0", "1", "2", "3", "4", "5", "6", "7", "8", "9"}

DigitValue(c) ==
    CASE c = "0" -> 0 [] c = "1" -> 1 [] c = "2" -> 2 [] c = "3" -> 3 [] c = "4" -> 4
      [] c = "5" -> 5 [] c = "6" -> 6 [] c = "7" -> 7 [] c = "8" -> 8 [] c = "9" -> 9

DigitChar(d) ==
    CASE d = 0 -> "0" [] d = 1 -> "1" [] d = 2 -> "2" [] d = 3 -> "3" [] d = 4 -> "4"
      [] d = 5 -> "5" [] d = 6 -> "6" [] d = 7 -> "7" [] d = 8 -> "8" [] d = 9 -> "9"

\* str.isspace for the characters of the model
IsSpace(c) == c \in {" ", "\t", "\n"}

RECURSIVE SplitFrom(_, _, _)
SplitFrom(s, cur, acc) ==
    IF s = <<>> THEN (IF cur = <<>> THEN acc ELSE Append(acc, cur))
    ELSE IF IsSpace(Head(s))
         THEN SplitFrom(Tail(s), <<>>, IF cur = <<>> THEN acc ELSE Append(acc, cur))
         ELSE SplitFrom(Tail(s), Append(cur, Head(s)), acc)

\* prompt.strip().split(): the maximal runs of non-whitespace characters
split(s) == SplitFrom(s, <<>>, <<>>)

RECURSIVE DigitsValue(_, _)
DigitsValue(body, acc) ==
    IF body = <<>> THEN acc
    ELSE IF Head(body) = "_" THEN DigitsValue(Tail(body), acc)
         ELSE DigitsValue(Tail(body), acc * 10 + DigitValue(Head(body)))

\* int that drops the sign of its token
int_unsigned(token) ==
    LET signed == token # <<>> /\ Head(token) \in {"+", "-"}
        body   == IF signed THEN Tail(token) ELSE token
    IN  IF body # <<>> /\ \A i \in 1..Len(body) : body[i] \in Digits
        THEN [ok |-> TRUE, value |-> DigitsValue(body, 0)]
        ELSE [ok |-> FALSE, value |-> 0]

\* int(token): an optional sign, then digits with single underscores between
\* them; anything else raises ValueError ([ok |-> FALSE])
int(token) ==
    LET signed == token # <<>> /\ Head(token) \in {"+", "-"}
        body   == IF signed THEN Tail(token) ELSE token
        wellFormed ==
            /\ body # <<>>
            /\ body[1] \in Digits
            /\ body[Len(body)] \in Digits
            /\ \A i \in 1..Len(body) : body[i] \in Digits \cup {"_"}
            /\ \A i \in 1..(Len(body) - 1) : ~(body[i] = "_" /\ body[i + 1] = "_")
    IN  IF ~wellFormed THEN [ok |-> FALSE, value |-> 0]
        ELSE [ok |-> TRUE,
              value |-> IF signed /\ Head(token) = "-"
                        THEN 0 - DigitsValue(body, 0)
                        ELSE DigitsValue(body, 0)]

RECURSIVE NatStr(_)
NatStr(n) == IF n < 10 THEN <<DigitChar(n)>> ELSE Append(NatStr(n \div 10), DigitChar(n % 10))

\* str(n) of an integer, as the f-string and str.format render it
str(n) == IF n < 0 THEN <<"-">> \o NatStr(0 - n) ELSE NatStr(n)

\* s.startswith(prefix)
startswith(s, prefix) == Len(s) >= Len(prefix) /\ SubSeq(s, 1, Len(prefix)) = prefix

RECURSIVE join(_, _)
\* sep.join(parts)
join(sep, parts) ==
    IF parts = <<>> THEN <<>>
    ELSE IF Len(parts) = 1 THEN parts[1]
         ELSE parts[1] \o sep \o join(sep, Tail(parts))

RECURSIVE concat(_)
\* the concatenation of a sequence of lists (list.extend, repeated)
concat(lists) == IF lists = <<>> THEN <<>> ELSE Head(lists) \o concat(Tail(lists))

\* list.reverse()
reverse(l) == [i \in 1..Len(l) |-> l[Len(l) + 1 - i]]

-----------------------------------------------------------------------------
(* The platform's objects *)

U1  == [id |-> 1, name |-> <<"A">>, bot |-> FALSE]
U2  == [id |-> 2, name |-> <<"B">>, bot |-> FALSE]
BOT == [id |-> 9, name |-> <<"Z">>, bot |-> TRUE]

\* discord.User.mention
mention(user) == <<"<", "@">> \o str(user.id) \o <<">">>

\* the command prefix the exclusion predicate tests
COMMAND_PREFIX == <<"!", "s", "u", "m">>

\* history_count when the argument string gives none
DEFAULT_HISTORY_COUNT == 20

\* the literals of the source
NOT_A_NUMBER_NOTICE == <<"not a number, summarizing the last 20 messages.">>
NO_MESSAGES_FOR     == <<"no messages found in this channel for ">>
NO_MESSAGES_FOR_END == <<".">>
NO_MESSAGES         == <<"this channel has no messages to summarize.">>
ERROR_LABEL         == <<"error: ">>
EMBED_LABEL         == <<"embed: ">>
ATTACHMENT_LABEL    == <<"attachment: ">>
SUMMARY_PROMPT      == <<"group by sender, bullet highlights, integrated summary">>

\* SUMMARY_MESSAGE.format(history_count=..., chat_history_string=...)
SUMMARY_MESSAGE(count, chat) ==
    <<"\n", "summarize the following ">> \o str(count) \o <<" messages:", "\n">>
        \o chat \o <<"\n">>

Message(author, content, embeds, atts) ==
    [id |-> 0, author |-> author, content |-> content, embeds |-> embeds,
     attachments |-> atts]

\* the messages of a channel carry increasing ids (snowflakes)
Numbered(msgs) == [i \in 1..Len(msgs) |-> [msgs[i] EXCEPT !.id = i]]

\* a message posted to the channel: it gets the next id
Post(h, author, content) ==
    Append(h, [Message(author, content, <<>>, <<>>) EXCEPT !.id = Len(h) + 1])

-----------------------------------------------------------------------------
(* The methods of MessageFetcher, as the code computes them *)

\* _parse_args that takes the mention after a count without asking for a
\* second argument
_parse_args_any_length(c, prompt) ==
    LET args == split(prompt)
        first == int(args[1])
        firstMention == IF c.mentions # <<>> THEN <<c.mentions[1]>> ELSE <<>>
    IN  IF args = <<>>
        THEN [history_count |-> DEFAULT_HISTORY_COUNT, target_user |-> <<>>,
              coroutines |-> <<>>]
        ELSE IF first.ok
        THEN [history_count |-> first.value, target_user |-> firstMention,
              coroutines |-> <<>>]
        ELSE [history_count |-> DEFAULT_HISTORY_COUNT,
              target_user |-> firstMention,
              coroutines |-> <<NOT_A_NUMBER_NOTICE>>]

\* _parse_args(ctx, prompt): the count, the target user and the coroutines
\* that ctx.send(...) creates without awaiting them
_parse_args(c, prompt) ==
    LET args == split(prompt)
        first == int(args[1])
        firstMention == IF c.mentions # <<>> THEN <<c.mentions[1]>> ELSE <<>>
    IN  IF args = <<>>
        THEN [history_count |-> DEFAULT_HISTORY_COUNT, target_user |-> <<>>,
              coroutines |-> <<>>]
        ELSE IF first.ok
        THEN [history_count |-> first.value,
              target_user |-> IF Len(args) > 1 THEN firstMention ELSE <<>>,
              coroutines |-> <<>>]
        ELSE [history_count |-> DEFAULT_HISTORY_COUNT,
              target_user |-> firstMention,
              coroutines |-> <<NOT_A_NUMBER_NOTICE>>]

\* channel.history(limit=limit): an async iterator over the channel, newest
\* first. Nothing is requested until the first step; `before` is then the id
\* below which the next message is taken, `newest` the newest id it has seen.
channel_history(limit) == [limit |-> limit, before |-> <<>>, newest |-> <<>>]

\* an iterator that pages by offset from the channel's newest message
NextIndex_by_offset(it, h) ==
    IF it.before = <<>> THEN Len(h)
    ELSE Len(h) - (it.newest[1] - it.before[1] + 1)

\* the index of the message the iterator yields next (0: none is left)
NextIndex(it, h) == IF it.before = <<>> THEN Len(h) ELSE it.before[1] - 1

\* whether the iterator yields another message: limit=None never runs out,
\* a limit below 1 retrieves nothing
HasNext(it, h) ==
    IF it.limit = <<>> THEN NextIndex(it, h) >= 1
    ELSE it.limit[1] >= 1 /\ NextIndex(it, h) >= 1

\* whether the next step asks the platform for messages (and so may fail):
\* the channels of the model are shorter than one page of the platform (100
\* messages), so the first step's request is the only one
Requests(it) ==
    it.before = <<>> /\ (IF it.limit = <<>> THEN TRUE ELSE it.limit[1] >= 1)

\* the iterator after it has yielded h[NextIndex(it, h)]
Advance(it, h) ==
    [limit  |-> IF it.limit = <<>> THEN <<>> ELSE <<it.limit[1] - 1>>,
     before |-> <<NextIndex(it, h)>>,
     newest |-> IF it.before = <<>> THEN <<Len(h)>> ELSE it.newest]

\* _fetch_messages that scans the whole channel also without a target
_fetch_iterator_unbounded(count, target) == channel_history(<<>>)

\* the iterator _fetch_messages opens
_fetch_iterator(count, target) ==
    IF target # <<>> THEN channel_history(<<>>) ELSE channel_history(<<count>>)

\* one pass of the body of the loop of _fetch_messages on msg
_fetch_body(msgs, msg, count, target) ==
    IF target # <<>>
    THEN IF /\ msg.author.id = target[1].id
            /\ ~msg.author.bot
            /\ ~startswith(msg.content, COMMAND_PREFIX)
         THEN [messages |-> Append(msgs, msg), stop |-> Len(msgs) + 1 = count]
         ELSE [messages |-> msgs, stop |-> FALSE]
    ELSE IF ~msg.author.bot /\ ~startswith(msg.content, COMMAND_PREFIX)
         THEN [messages |-> Append(msgs, msg), stop |-> FALSE]
         ELSE [messages |-> msgs, stop |-> FALSE]

RECURSIVE _fetch_loop(_, _, _, _, _)
\* the loop of _fetch_messages run to its end on a channel nobody posts to
_fetch_loop(it, h, msgs, count, target) ==
    IF ~HasNext(it, h) THEN msgs
    ELSE LET step == _fetch_body(msgs, h[NextIndex(it, h)], count, target)
         IN  IF step.stop THEN step.messages
             ELSE _fetch_loop(Advance(it, h), h, step.messages, count, target)

\* _fetch_messages(channel, history_count, target_user) on such a channel
_fetch_messages(h, count, target) ==
    reverse(_fetch_loop(_fetch_iterator(count, target), h, <<>>, count, target))

\* the descriptions of the embeds that have one (None and "" are both falsy)
embed_descriptions(msg) ==
    LET all == [i \in 1..Len(msg.embeds) |-> msg.embeds[i].description]
    IN  SelectSeq(all, LAMBDA d : d # <<>>)

attachment_urls(msg) == [i \in 1..Len(msg.attachments) |-> msg.attachments[i].url]

\* one pass of the loop of _format_messages: the line and the references
_format_message(msg) ==
    LET content_text ==
            IF msg.embeds # <<>>
            THEN EMBED_LABEL \o join(<<",", " ">>, embed_descriptions(msg))
            ELSE IF msg.attachments # <<>>
            THEN ATTACHMENT_LABEL \o join(<<",", " ">>, attachment_urls(msg))
            ELSE msg.content
        references ==
            IF msg.embeds # <<>> THEN embed_descriptions(msg)
            ELSE IF msg.attachments # <<>> THEN attachment_urls(msg)
            ELSE <<>>
    IN  [line |-> msg.author.name \o <<":", " ">> \o content_text,
         references |-> references]

\* _format_messages(messages)
_format_messages(msgs) ==
    LET each == [i \in 1..Len(msgs) |-> _format_message(msgs[i])]
    IN  [chat_history_string |-> join(<<"\n">>, [i \in 1..Len(msgs) |-> each[i].line]),
         attachments |-> concat([i \in 1..Len(msgs) |-> each[i].references])]

\* sum without its `if not messages` branch
not_skipped(l) == FALSE

\* `not messages` for a list
not(l) == l = <<>>

\* _create_summary_prompt(history_count, chat_history_string)
_create_summary_prompt(count, chat) == SUMMARY_MESSAGE(count, chat)

\* _call_llm that takes the last choice
_call_llm_last(answer) ==
    IF answer.choices = <<>>
    THEN [ok |-> FALSE, value |-> <<"list index out of range">>]
    ELSE [ok |-> TRUE, value |-> answer.choices[Len(answer.choices)].message.content]

\* _call_llm after the client has answered: response.choices[0].message.content
_call_llm(answer) ==
    IF answer.choices = <<>>
    THEN [ok |-> FALSE, value |-> <<"list index out of range">>]
    ELSE [ok |-> TRUE, value |-> answer.choices[1].message.content]

-----------------------------------------------------------------------------
(* The inputs *)

SeqsUpTo(S, n) == UNION {[1..k -> S] : k \in 0..n}

\* what the LLM client answers: a response with no choice, or with two
Choice(content) == [message |-> [content |-> content]]
LLMResponses ==
    {[choices |-> <<>>],
     [choices |-> <<Choice(<<"S", "1">>), Choice(<<"S", "2">>)>>]}

\* the user who types the command of an invocation
Invoker(p) == IF p = "inv1" THEN U1 ELSE U2

Context(prompt, mentions, author) ==
    [prompt |-> prompt, mentions |-> mentions, author |-> author]

\* the text of the message that invokes the command
CommandText(prompt) ==
    IF prompt = <<>> THEN COMMAND_PREFIX ELSE COMMAND_PREFIX \o <<" ">> \o prompt

\* the channel of the handler specification before the commands: plain
\* messages of two users, one of them of two lines (the commands and the
\* bot's replies are posted by the invocations)
ChannelKinds ==
    {Message(U1, <<"h", "i">>, <<>>, <<>>),
     Message(U2, <<"a", "\n", "b">>, <<>>, <<>>)}

InitialChannels == {Numbered(h) : h \in SeqsUpTo(ChannelKinds, MaxChannel)}

\* the invocations of the handler specification: !sum 2, !sum 1 <@1>, !sum x
HandlerInputs(p) ==
    {Context(<<"2">>, <<>>, Invoker(p)),
     Context(<<"1", " ">> \o mention(U1), <<U1>>, Invoker(p)),
     Context(<<"x">>, <<>>, Invoker(p))}

NoContext == Context(<<>>, <<>>, BOT)

-----------------------------------------------------------------------------
(* The state machine *)

Blank ==
    /\ ctx = [p \in Invocations |-> NoContext]
    /\ history_count = [p \in Invocations |-> 0]
    /\ target_user = [p \in Invocations |-> <<>>]
    /\ unawaited = [p \in Invocations |-> <<>>]
    /\ iterator = [p \in Invocations |-> channel_history(<<>>)]
    /\ messages = [p \in Invocations |-> <<>>]
    /\ chat_history_string = [p \in Invocations |-> <<>>]
    /\ attachments = [p \in Invocations |-> <<>>]
    /\ final_prompt = [p \in Invocations |-> <<>>]
    /\ llm_requests = [p \in Invocations |-> <<>>]
    /\ response = [p \in Invocations |-> <<>>]
    /\ summary = [p \in Invocations |-> <<>>]
    /\ error = [p \in Invocations |-> <<>>]
    /\ sent = [p \in Invocations |-> <<>>]
    /\ stages = [p \in Invocations |-> <<>>]

\* the cog after setup: a channel with some messages, no command dispatched yet
Init ==
    /\ history \in InitialChannels
    /\ pc = [p \in Invocations |-> "idle"]
    /\ Blank

\* ctx.send outside the try block: its failure leaves sum
Send_uncaught(p, text, delivered, after) ==
    IF delivered
    THEN /\ sent' = [sent EXCEPT ![p] = Append(@, text)]
         /\ history' = Post(history, BOT, text)
         /\ pc' = [pc EXCEPT ![p] = after]
         /\ error' = error
    ELSE /\ sent' = sent
         /\ history' = history
         /\ pc' = [pc EXCEPT ![p] = "raised"]
         /\ error' = [error EXCEPT ![p] = <<"HTTPException">>]

\* await ctx.send(text): the message is delivered and posted to the channel by
\* the bot, or the platform refuses it and send raises
Send(p, text, delivered, after) ==
    IF delivered
    THEN /\ sent' = [sent EXCEPT ![p] = Append(@, text)]
         /\ history' = Post(history, BOT, text)
         /\ pc' = [pc EXCEPT ![p] = after]
         /\ error' = error
    ELSE /\ sent' = sent
         /\ history' = history
         /\ pc' = [pc EXCEPT ![p] = IF pc[p] = "except" THEN "raised" ELSE "except"]
         /\ error' = [error EXCEPT ![p] = <<"HTTPException">>]

\* the user posts the command, the framework calls sum: _parse_args runs, then
\* _fetch_messages up to its first await (lines 54, 57, 92-108, 123-126, 137)
Dispatch(p, c) ==
    /\ pc[p] = "idle"
    /\ LET parsed == _parse_args(c, c.prompt)
       IN  /\ history' = Post(history, c.author, CommandText(c.prompt))
           /\ ctx' = [ctx EXCEPT ![p] = c]
           /\ history_count' = [history_count EXCEPT ![p] = parsed.history_count]
           /\ target_user' = [target_user EXCEPT ![p] = parsed.target_user]
           /\ unawaited' = [unawaited EXCEPT ![p] = parsed.coroutines]
           /\ iterator' = [iterator EXCEPT
                  ![p] = _fetch_iterator(parsed.history_count, parsed.target_user)]
           /\ messages' = [messages EXCEPT ![p] = <<>>]
           /\ stages' = [stages EXCEPT ![p] = <<"parse", "fetch">>]
           /\ pc' = [pc EXCEPT ![p] = "fetch"]
    /\ UNCHANGED <<chat_history_string, attachments, final_prompt, llm_requests,
                   response, summary, error, sent>>

sum(p) == pc[p] = "idle" /\ \E c \in HandlerInputs(p) : Dispatch(p, c)

\* one step of `async for msg in channel.history(...)` and the loop's body;
\* on break the list is reversed and returned (lines 126-134, 137-139, 142)
fetch_next(p) ==
    /\ pc[p] = "fetch"
    /\ HasNext(iterator[p], history)
    /\ LET msg  == history[NextIndex(iterator[p], history)]
           step == _fetch_body(messages[p], msg, history_count[p], target_user[p])
       IN  /\ iterator' = [iterator EXCEPT ![p] = Advance(@, history)]
           /\ messages' = [messages EXCEPT
                  ![p] = IF step.stop THEN reverse(step.messages) ELSE step.messages]
           /\ pc' = [pc EXCEPT ![p] = IF step.stop THEN "fetched" ELSE "fetch"]
    /\ UNCHANGED <<history, ctx, history_count, target_user, unawaited,
                   chat_history_string, attachments, final_prompt, llm_requests,
                   response, summary, error, sent, stages>>

\* the iterator is exhausted: the list is reversed and returned (lines 142-143)
fetch_exhausted(p) ==
    /\ pc[p] = "fetch"
    /\ ~HasNext(iterator[p], history)
    /\ iterator' = [iterator EXCEPT
           ![p] = IF Requests(@)
                  THEN [@ EXCEPT !.before = <<1>>, !.newest = <<Len(history)>>]
                  ELSE @]
    /\ messages' = [messages EXCEPT ![p] = reverse(@)]
    /\ pc' = [pc EXCEPT ![p] = "fetched"]
    /\ UNCHANGED <<history, ctx, history_count, target_user, unawaited,
                   chat_history_string, attachments, final_prompt, llm_requests,
                   response, summary, error, sent, stages>>

\* a request of the iterator fails (permission, rate limit): the exception
\* leaves _fetch_messages and is caught at line 78
fetch_raise(p) ==
    /\ pc[p] = "fetch"
    /\ Requests(iterator[p])
    /\ error' = [error EXCEPT ![p] = <<"Forbidden">>]
    /\ pc' = [pc EXCEPT ![p] = "except"]
    /\ UNCHANGED <<history, ctx, history_count, target_user, unawaited, iterator,
                   messages, chat_history_string, attachments, final_prompt,
                   llm_requests, response, summary, sent, stages>>

\* `if not messages`: one of the two replies, then return (lines 59-64)
sum_empty(p) ==
    /\ pc[p] = "fetched"
    /\ not(messages[p])
    /\ stages' = [stages EXCEPT ![p] = Append(@, "reply")]
    /\ \E delivered \in BOOLEAN :
          Send(p,
               IF target_user[p] # <<>>
               THEN NO_MESSAGES_FOR \o mention(target_user[p][1]) \o NO_MESSAGES_FOR_END
               ELSE NO_MESSAGES,
               delivered, "done")
    /\ UNCHANGED <<ctx, history_count, target_user, unawaited, iterator, messages,
                   chat_history_string, attachments, final_prompt, llm_requests,
                   response, summary>>

\* the messages are formatted, the prompt is built and _call_llm awaits
\* get_oai_reply(prompt=..., image_urls=...): no await lies between the return
\* of _fetch_messages and this one (lines 67, 70, 73, 206)
sum_summarize(p) ==
    /\ pc[p] = "fetched"
    /\ ~not(messages[p])
    /\ LET formatted == _format_messages(messages[p])
           prompt == _create_summary_prompt(history_count[p],
                                            formatted.chat_history_string)
       IN  /\ chat_history_string' = [chat_history_string EXCEPT
                  ![p] = formatted.chat_history_string]
           /\ attachments' = [attachments EXCEPT ![p] = formatted.attachments]
           /\ final_prompt' = [final_prompt EXCEPT ![p] = prompt]
           /\ llm_requests' = [llm_requests EXCEPT
                  ![p] = Append(@, [system_prompt |-> SUMMARY_PROMPT,
                                    prompt |-> prompt,
                                    image_urls |-> formatted.attachments])]
    /\ stages' = [stages EXCEPT ![p] = @ \o <<"format", "prompt", "llm">>]
    /\ pc' = [pc EXCEPT ![p] = "llm"]
    /\ UNCHANGED <<history, ctx, history_count, target_user, unawaited, iterator,
                   messages, response, summary, error, sent>>

\* the client answers and _call_llm returns the first choice's text, or the
\* indexing raises (line 208)
llm_answer(p) ==
    /\ pc[p] = "llm"
    /\ \E answer \in LLMResponses :
          LET reply == _call_llm(answer)
          IN  /\ response' = [response EXCEPT ![p] = <<answer>>]
              /\ IF reply.ok
                 THEN /\ summary' = [summary EXCEPT ![p] = reply.value]
                      /\ error' = error
                      /\ pc' = [pc EXCEPT ![p] = "send"]
                 ELSE /\ summary' = summary
                      /\ error' = [error EXCEPT ![p] = reply.value]
                      /\ pc' = [pc EXCEPT ![p] = "except"]
    /\ UNCHANGED <<history, ctx, history_count, target_user, unawaited, iterator,
                   messages, chat_history_string, attachments, final_prompt,
                   llm_requests, sent, stages>>

\* the client fails (network, quota): get_oai_reply raises (line 206)
llm_raise(p) ==
    /\ pc[p] = "llm"
    /\ error' = [error EXCEPT ![p] = <<"APIConnectionError">>]
    /\ pc' = [pc EXCEPT ![p] = "except"]
    /\ UNCHANGED <<history, ctx, history_count, target_user, unawaited, iterator,
                   messages, chat_history_string, attachments, final_prompt,
                   llm_requests, response, summary, sent, stages>>

\* await ctx.send(summary) (line 76)
sum_send(p) ==
    /\ pc[p] = "send"
    /\ stages' = [stages EXCEPT ![p] = Append(@, "reply")]
    /\ \E delivered \in BOOLEAN : Send(p, summary[p], delivered, "done")
    /\ UNCHANGED <<ctx, history_count, target_user, unawaited, iterator, messages,
                   chat_history_string, attachments, final_prompt, llm_requests,
                   response, summary>>

\* except Exception as e: await ctx.send(f"...{e}") (lines 78-80); a failure
\* of this send is raised out of sum
sum_except(p) ==
    /\ pc[p] = "except"
    /\ stages' = [stages EXCEPT ![p] = Append(@, "except")]
    /\ \E delivered \in BOOLEAN : Send(p, ERROR_LABEL \o error[p], delivered, "done")
    /\ UNCHANGED <<ctx, history_count, target_user, unawaited, iterator, messages,
                   chat_history_string, attachments, final_prompt, llm_requests,
                   response, summary>>

Next ==
    \E p \in Invocations :
        \/ sum(p)
        \/ fetch_next(p)
        \/ fetch_exhausted(p)
        \/ fetch_raise(p)
        \/ sum_empty(p)
        \/ sum_summarize(p)
        \/ llm_answer(p)
        \/ llm_raise(p)
        \/ sum_send(p)
        \/ sum_except(p)

Spec == Init /\ [][Next]_vars

-----------------------------------------------------------------------------
(* The parser on its own: every argument string of up to MaxTokens tokens *)

\* the tokens of the argument strings: counts from -1 to MaxCount, a count
\* with a plus sign, the default written out, digits with underscores, words
\* and mentions
CountTokens == {str(k) : k \in -1..MaxCount} \cup {<<"+", "1">>, str(DEFAULT_HISTORY_COUNT)}
OtherTokens ==
    {<<"x">>, <<"1", "a">>, <<"-">>, <<"1", "_", "0">>, <<"_", "1">>,
     mention(U1)}
Tokens == CountTokens \cup OtherTokens

\* argument strings: the tokens joined by a space, or led by a space and
\* joined by a tab and a space
ParserPrompts ==
    {space[1] \o join(space[2], ts) :
        space \in {<< <<>>, <<" ">> >>, << <<" ">>, <<"\t", " ">> >>},
        ts \in SeqsUpTo(Tokens, MaxTokens)}

\* message.mentions: the users the message mentions, by a token of its text
\* or by being a reply to one of their messages
MentionLists == {<<>>, <<U1>>, <<U2>>, <<BOT>>, <<U1, U2>>, <<U2, U1>>}

Mentions(list) == {list[i] : i \in 1..Len(list)}

ParserInputs ==
    {c \in {Context(prompt, list, U1) : prompt \in ParserPrompts, list \in MentionLists} :
        \A u \in {U1, U2} :
            (\E i \in 1..Len(split(c.prompt)) : split(c.prompt)[i] = mention(u))
                => u \in Mentions(c.mentions)}

InitParse ==
    /\ history = <<>>
    /\ pc = [p \in Invocations |-> "idle"]
    /\ Blank

\* the command is dispatched once, on any of the inputs
parse(p) == pc[p] = "idle" /\ \E c \in ParserInputs : Dispatch(p, c)

NextParse == parse("inv1")

ParseSpec == InitParse /\ [][NextParse]_vars

-----------------------------------------------------------------------------
(* The fetch on its own: every channel of up to MaxHistory messages *)

FetchKinds ==
    {Message(a, t, <<>>, <<>>) :
        a \in {U1, U2, BOT},
        t \in {<<"h", "i">>, COMMAND_PREFIX \o <<" ", "2">>}}

FetchChannels == {Numbered(h) : h \in SeqsUpTo(FetchKinds, MaxHistory)}

\* the counts _parse_args can return and the targets it can return
FetchCounts == (-1..MaxCount) \cup {DEFAULT_HISTORY_COUNT}
FetchTargets == {<<>>, <<U1>>, <<U2>>, <<BOT>>}

InitFetch ==
    /\ history \in FetchChannels
    /\ \E count \in FetchCounts, target \in FetchTargets :
          /\ history_count = [p \in Invocations |-> IF p = "inv1" THEN count ELSE 0]
          /\ target_user = [p \in Invocations |-> IF p = "inv1" THEN target ELSE <<>>]
          /\ iterator = [p \in Invocations |->
                 IF p = "inv1" THEN _fetch_iterator(count, target)
                 ELSE channel_history(<<>>)]
    /\ pc = [p \in Invocations |-> IF p = "inv1" THEN "fetch" ELSE "idle"]
    /\ stages = [p \in Invocations |-> IF p = "inv1" THEN <<"parse", "fetch">> ELSE <<>>]
    /\ ctx = [p \in Invocations |-> NoContext]
    /\ unawaited = [p \in Invocations |-> <<>>]
    /\ messages = [p \in Invocations |-> <<>>]
    /\ chat_history_string = [p \in Invocations |-> <<>>]
    /\ attachments = [p \in Invocations |-> <<>>]
    /\ final_prompt = [p \in Invocations |-> <<>>]
    /\ llm_requests = [p \in Invocations |-> <<>>]
    /\ response = [p \in Invocations |-> <<>>]
    /\ summary = [p \in Invocations |-> <<>>]
    /\ error = [p \in Invocations |-> <<>>]
    /\ sent = [p \in Invocations |-> <<>>]

NextFetch ==
    \E p \in Invocations :
        \/ fetch_next(p)
        \/ fetch_exhausted(p)
        \/ fetch_raise(p)

FetchSpec == InitFetch /\ [][NextFetch]_vars

-----------------------------------------------------------------------------
(* The formatter on its own: every list of up to MaxMessages fetched messages *)

Embed(description) == [description |-> description]
Attachment(url) == [url |-> url]

EmbedLists ==
    {<<>>,
     <<Embed(<<>>)>>,
     <<Embed(<<"d", "1">>)>>,
     <<Embed(<<"d", "1">>), Embed(<<>>), Embed(<<"d", "2">>)>>}

AttachmentLists ==
    {<<>>,
     <<Attachment(<<"u", "1">>)>>,
     <<Attachment(<<"u", "1">>), Attachment(<<"u", "2">>)>>}

\* what _fetch_messages returns: messages of users, none of them a command
FormatKinds ==
    {Message(who[1], who[2], e, a) :
        who \in {<<U1, <<"h", "i">>>>, <<U2, <<"a", "\n", "b">>>>},
        e \in EmbedLists,
        a \in AttachmentLists}

FormatLists == {Numbered(l) : l \in SeqsUpTo(FormatKinds, MaxMessages) \ {<<>>}}

InitFormat ==
    /\ history = <<>>
    /\ messages \in {[p \in Invocations |-> IF p = "inv1" THEN l ELSE <<>>] : l \in FormatLists}
    /\ pc = [p \in Invocations |-> IF p = "inv1" THEN "fetched" ELSE "idle"]
    /\ stages = [p \in Invocations |-> IF p = "inv1" THEN <<"parse", "fetch">> ELSE <<>>]
    /\ history_count = [p \in Invocations |-> IF p = "inv1" THEN DEFAULT_HISTORY_COUNT ELSE 0]
    /\ ctx = [p \in Invocations |-> NoContext]
    /\ target_user = [p \in Invocations |-> <<>>]
    /\ unawaited = [p \in Invocations |-> <<>>]
    /\ iterator = [p \in Invocations |-> channel_history(<<>>)]
    /\ chat_history_string = [p \in Invocations |-> <<>>]
    /\ attachments = [p \in Invocations |-> <<>>]
    /\ final_prompt = [p \in Invocations |-> <<>>]
    /\ llm_requests = [p \in Invocations |-> <<>>]
    /\ response = [p \in Invocations |-> <<>>]
    /\ summary = [p \in Invocations |-> <<>>]
    /\ error = [p \in Invocations |-> <<>>]
    /\ sent = [p \in Invocations |-> <<>>]

NextFormat == \E p \in Invocations : sum_summarize(p)

FormatSpec == InitFormat /\ [][NextFormat]_vars

-----------------------------------------------------------------------------
(* Properties of the argument parser (ParseSpec) *)

Min(a, b) == IF a <= b THEN a ELSE b
Max(a, b) == IF a >= b THEN a ELSE b

\* where the whitespace-separated tokens of s begin
TokenStarts(s) == {i \in 1..Len(s) : ~IsSpace(s[i]) /\ (i = 1 \/ IsSpace(s[i - 1]))}

\* the first whitespace-separated token of s (s has one)
FirstTokenOf(s) ==
    LET i == CHOOSE a \in TokenStarts(s) : \A b \in TokenStarts(s) : a <= b
        j == CHOOSE e \in i..Len(s) :
                 /\ \A k \in i..e : ~IsSpace(s[k])
                 /\ (e = Len(s) \/ IsSpace(s[e + 1]))
    IN  SubSeq(s, i, j)

\* token is the integer k written in decimal, with or without a plus sign
Decimal(token, k) == token = str(k) \/ (k >= 0 /\ token = <<"+">> \o str(k))

\* the counts an argument string of the model writes
WrittenCounts == (-1..MaxCount) \cup {DEFAULT_HISTORY_COUNT}

\* token cannot be read as a number: it has a character that is no digit,
\* sign or underscore, or it has no digit
NotNumeric(token) ==
    \/ \E i \in 1..Len(token) : token[i] \notin Digits \cup {"+", "-", "_"}
    \/ \A i \in 1..Len(token) : token[i] \notin Digits

\* the first mention of the invocation, or None
FirstMention(c) == IF c.mentions # <<>> THEN <<c.mentions[1]>> ELSE <<>>

Parsed(p) == pc[p] # "idle"

\* C8: the parsed history_count is k when the first token of the argument
\* string is the integer k, whatever follows it, and is 20 when the argument
\* string has no token or its first token is not numeric.
C8_HistoryCount ==
    \A p \in Invocations :
        Parsed(p) =>
            LET s == ctx[p].prompt
            IN  IF TokenStarts(s) = {}
                THEN history_count[p] = DEFAULT_HISTORY_COUNT
                ELSE /\ \A k \in WrittenCounts :
                            Decimal(FirstTokenOf(s), k) => history_count[p] = k
                     /\ NotNumeric(FirstTokenOf(s))
                            => history_count[p] = DEFAULT_HISTORY_COUNT

\* a negative count followed by a second token has been parsed
C8_Witness ==
    \E p \in Invocations :
        /\ Parsed(p)
        /\ Cardinality(TokenStarts(ctx[p].prompt)) = 2
        /\ FirstTokenOf(ctx[p].prompt) = str(-1)
        /\ history_count[p] = -1

\* C5 as stated: when the first token parses as an integer, target_user is
\* the first mentioned user whatever the number of tokens, and None when
\* nobody is mentioned.
C5_TargetWheneverMentioned ==
    \A p \in Invocations :
        (/\ Parsed(p)
         /\ TokenStarts(ctx[p].prompt) # {}
         /\ int(FirstTokenOf(ctx[p].prompt)).ok)
            => target_user[p] = FirstMention(ctx[p])

\* C5 amended: when the first token parses as an integer, target_user is the
\* first mentioned user if the argument string has at least two tokens and
\* somebody is mentioned, and None otherwise (also for a count alone in a
\* message that mentions somebody).
C5_TargetNeedsSecondToken ==
    \A p \in Invocations :
        (/\ Parsed(p)
         /\ TokenStarts(ctx[p].prompt) # {}
         /\ int(FirstTokenOf(ctx[p].prompt)).ok)
            => target_user[p] =
                   IF Cardinality(TokenStarts(ctx[p].prompt)) >= 2
                   THEN FirstMention(ctx[p]) ELSE <<>>

\* a count alone has been parsed in a message that mentions a user (a reply
\* to that user's message): target_user is None
C5_Witness ==
    \E p \in Invocations :
        /\ Parsed(p)
        /\ Cardinality(TokenStarts(ctx[p].prompt)) = 1
        /\ int(FirstTokenOf(ctx[p].prompt)).ok
        /\ ctx[p].mentions = <<U1>>
        /\ target_user[p] = <<>>

-----------------------------------------------------------------------------
(* Properties of the fetch (FetchSpec: nobody posts while it runs) *)

\* the exclusion predicate: not written by a bot, not a command
Qualifies(m) == ~m.author.bot /\ ~startswith(m.content, COMMAND_PREFIX)

Available(h) == {i \in 1..Len(h) : Qualifies(h[i])}

OldestFirst(msgs) == \A i \in 1..(Len(msgs) - 1) : msgs[i].id < msgs[i + 1].id

\* the n most recent messages of h, oldest first (none when n is below 1)
Recent(h, n) == SubSeq(h, Len(h) - Min(Max(n, 0), Len(h)) + 1, Len(h))

C4_FilteredFetch ==
    \A p \in Invocations :
        (pc[p] = "fetched" /\ target_user[p] # <<>>)
            => /\ \A i \in 1..Len(messages[p]) :
                      /\ messages[p][i].author.id = target_user[p][1].id
                      /\ Qualifies(messages[p][i])
               /\ Len(messages[p]) <= Max(history_count[p], 0)
               /\ OldestFirst(messages[p])
               /\ (messages[p] # <<>> /\ Len(messages[p]) = history_count[p])
                      => iterator[p].before = <<messages[p][1].id>>

-----------------------------------------------------------------------------
(* Properties of the formatter (FormatSpec) *)

\* the content and the references of a message by the stated precedence:
\* embeds with a description, else attachments, else the text
StatedContent(m) ==
    LET descriptions ==
            SelectSeq([i \in 1..Len(m.embeds) |-> m.embeds[i].description],
                      LAMBDA d : d # <<>>)
        urls == [i \in 1..Len(m.attachments) |-> m.attachments[i].url]
    IN  IF descriptions # <<>>
        THEN [text |-> EMBED_LABEL \o join(<<",", " ">>, descriptions),
              references |-> descriptions]
        ELSE IF urls # <<>>
        THEN [text |-> ATTACHMENT_LABEL \o join(<<",", " ">>, urls), references |-> urls]
        ELSE [text |-> m.content, references |-> <<>>]

\* C7: every line of the transcript is the author's name and the content
\* chosen by the stated precedence, and attachments holds the references of
\* the chosen branch; a message whose embeds all lack a description is
\* formatted by its attachments, or as its text when it has none.
C7_Precedence ==
    \A p \in Invocations :
        pc[p] = "llm"
            => /\ chat_history_string[p] =
                      join(<<"\n">>,
                           [i \in 1..Len(messages[p]) |->
                               messages[p][i].author.name \o <<":", " ">>
                                   \o StatedContent(messages[p][i]).text])
               /\ attachments[p] =
                      concat([i \in 1..Len(messages[p]) |->
                                 StatedContent(messages[p][i]).references])

-----------------------------------------------------------------------------
(* Properties of the handler (Spec: two invocations on one channel) *)

Has(seq, x) == \E i \in 1..Len(seq) : seq[i] = x

\* the except clause of sum has run
Failed(p) == Has(stages[p], "except")

\* _fetch_messages has returned to sum
FetchReturned(p) ==
    pc[p] = "fetched" \/ (Len(stages[p]) >= 3 /\ stages[p][3] # "except")

Ended(p) == pc[p] \in {"done", "raised"}

\* the reply for an empty fetch
EmptyReply(p) ==
    IF target_user[p] # <<>>
    THEN NO_MESSAGES_FOR \o mention(target_user[p][1]) \o NO_MESSAGES_FOR_END
    ELSE NO_MESSAGES

\* the reply of the except clause
ErrorReply(p) == ERROR_LABEL \o error[p]

\* C1 as stated: no failure ever leaves the handler, and an invocation in
\* which a stage failed ends with exactly one reply, the error line.
C1_NothingEscapes ==
    \A p \in Invocations :
        /\ pc[p] # "raised"
        /\ (pc[p] = "done" /\ Failed(p)) => sent[p] = <<ErrorReply(p)>>

\* C1 amended: a failure of any stage is caught by the handler, which then
\* attempts exactly one reply, the error line with the failure's description;
\* when that reply is delivered it is the invocation's only reply and the
\* handler returns. Only a failure of that error reply itself is raised out
\* of the handler, and then the invocation has delivered nothing.
C1_StageFailuresCaught ==
    \A p \in Invocations :
        /\ error[p] # <<>> => pc[p] \in {"except", "done", "raised"}
        /\ pc[p] = "except" => error[p] # <<>> /\ ~Failed(p) /\ sent[p] = <<>>
        /\ (pc[p] = "done" /\ Failed(p)) => sent[p] = <<ErrorReply(p)>>
        /\ pc[p] = "raised"
              => /\ Failed(p)
                 /\ sent[p] = <<>>
                 /\ error[p] = <<"HTTPException">>
        /\ Cardinality({i \in 1..Len(stages[p]) : stages[p][i] = "except"}) <= 1

\* the LLM client failed and the invocation ended with the error line alone
C1_Witness ==
    \E p \in Invocations :
        /\ pc[p] = "done"
        /\ Has(stages[p], "llm")
        /\ Failed(p)
        /\ sent[p] = <<ERROR_LABEL \o <<"list index out of range">> >>

\* C2 as stated: an invocation whose fetch returned nothing ends with exactly
\* one reply, the no-messages reply for its target, and has not formatted,
\* built a prompt or called the LLM client.
C2_EmptyFetchOneReply ==
    \A p \in Invocations :
        (FetchReturned(p) /\ messages[p] = <<>> /\ Ended(p))
            => /\ sent[p] = <<EmptyReply(p)>>
               /\ llm_requests[p] = <<>>
               /\ ~Has(stages[p], "format") /\ ~Has(stages[p], "prompt")

\* C2 amended: after a fetch that returned nothing the handler never formats,
\* builds a prompt or calls the LLM client, and attempts the no-messages reply
\* for its target; when that reply is delivered it is the invocation's only
\* reply. When the platform refuses it, the failure is caught like a stage's:
\* the only reply is then the error line, or none if that is refused too.
C2_EmptyFetchNoLLM ==
    \A p \in Invocations :
        (FetchReturned(p) /\ messages[p] = <<>>)
            => /\ pc[p] \in {"fetched", "except", "done", "raised"}
               /\ llm_requests[p] = <<>>
               /\ chat_history_string[p] = <<>> /\ final_prompt[p] = <<>>
               /\ \A i \in 1..Len(stages[p]) : stages[p][i] \notin {"format", "prompt", "llm"}
               /\ (pc[p] = "done" /\ ~Failed(p)) => sent[p] = <<EmptyReply(p)>>
               /\ (pc[p] = "done" /\ Failed(p)) => sent[p] = <<ErrorReply(p)>>
               /\ pc[p] \in {"fetched", "except", "raised"} => sent[p] = <<>>

\* a filtered fetch found nothing and the invocation ended with the reply
\* that names the user
C2_Witness ==
    \E p \in Invocations :
        /\ pc[p] = "done"
        /\ stages[p] = <<"parse", "fetch", "reply">>
        /\ target_user[p] = <<U1>>
        /\ sent[p] = <<NO_MESSAGES_FOR \o mention(U1) \o NO_MESSAGES_FOR_END>>

\* C6: when the first token is not numeric, the notice is delivered to the
\* channel before any other reply of the invocation, which goes on with
\* history_count = 20 and the first mention as its target.
C6_NoticeDelivered ==
    \A p \in Invocations :
        (/\ Parsed(p)
         /\ TokenStarts(ctx[p].prompt) # {}
         /\ ~int(FirstTokenOf(ctx[p].prompt)).ok)
            => /\ history_count[p] = DEFAULT_HISTORY_COUNT
               /\ target_user[p] = FirstMention(ctx[p])
               /\ (sent[p] # <<>> \/ Ended(p))
                      => (sent[p] # <<>> /\ sent[p][1] = NOT_A_NUMBER_NOTICE)

\* the invocation ended on the success path
Success(p) == pc[p] = "done" /\ ~Failed(p) /\ messages[p] # <<>>

LineBreaks(s) == {i \in 1..Len(s) : s[i] = "\n"}
NumLines(s) == Cardinality(LineBreaks(s)) + 1

\* the line breaks inside the texts of the messages
BreaksWithin(msgs) ==
    UNION {{<<i, j>> : j \in LineBreaks(msgs[i].content)} : i \in 1..Len(msgs)}

SuccessCommon(p) ==
    /\ stages[p] = <<"parse", "fetch", "format", "prompt", "llm", "reply">>
    /\ Len(llm_requests[p]) = 1
    /\ sent[p] = <<response[p][1].choices[1].message.content>>
    /\ llm_requests[p][1].prompt = SUMMARY_MESSAGE(history_count[p], chat_history_string[p])
    /\ OldestFirst(messages[p])

Locals(p) ==
    <<pc[p], ctx[p], history_count[p], target_user[p], unawaited[p], iterator[p],
      messages[p], chat_history_string[p], attachments[p], final_prompt[p],
      llm_requests[p], response[p], summary[p], error[p], sent[p], stages[p]>>

\* the channel as the fetch of p saw it at its first request
Seen(p) ==
    IF iterator[p].newest = <<>> THEN history
    ELSE SubSeq(history, 1, iterator[p].newest[1])

\* what p does when it runs alone on the channel its fetch saw
AsIfAlone(p) ==
    LET args   == _parse_args(ctx[p], ctx[p].prompt)
        alone  == _fetch_messages(Seen(p), args.history_count, args.target_user)
        format == _format_messages(alone)
    IN  /\ Parsed(p) => /\ history_count[p] = args.history_count
                        /\ target_user[p] = args.target_user
        /\ FetchReturned(p) => messages[p] = alone
        /\ llm_requests[p] # <<>>
              => llm_requests[p] =
                     <<[system_prompt |-> SUMMARY_PROMPT,
                        prompt |-> _create_summary_prompt(args.history_count,
                                                          format.chat_history_string),
                        image_urls |-> format.attachments]>>
        /\ (pc[p] = "done" /\ ~Failed(p))
              => sent[p] = IF alone = <<>> THEN <<EmptyReply(p)>>
                           ELSE <<response[p][1].choices[1].message.content>>

\* C10: under every interleaving of two invocations, a step changes the local
\* state of one invocation only, and what each invocation collects, asks the
\* LLM client and replies is what it does alone on the channel as its fetch
\* saw it.
C10_Independent ==
    /\ [](\A p \in Invocations : AsIfAlone(p))
    /\ [][\A p, q \in Invocations :
              p # q => (Locals(p)' = Locals(p) \/ Locals(q)' = Locals(q))]_vars

\* the index of the first message of h with this text by this author (0: none)
IndexOf(h, author, text) ==
    IF \E i \in 1..Len(h) : h[i].author = author /\ h[i].content = text
    THEN CHOOSE i \in 1..Len(h) :
             /\ h[i].author = author /\ h[i].content = text
             /\ \A j \in 1..(i - 1) : ~(h[j].author = author /\ h[j].content = text)
    ELSE 0

\* two invocations succeeded and overlapped: q was dispatched before the
\* fetch of p began, and replied after it began and before p replied
C10_Witness ==
    \E p, q \in Invocations :
        /\ p # q
        /\ Success(p) /\ Success(q)
        /\ iterator[p].newest # <<>>
        /\ IndexOf(history, Invoker(q), CommandText(ctx[q].prompt)) \in 1..iterator[p].newest[1]
        /\ IndexOf(history, BOT, sent[q][1]) > iterator[p].newest[1]
        /\ IndexOf(history, BOT, sent[q][1]) < Len(history)
        /\ history[Len(history)].content = sent[p][1]

====
